---- MODULE Spec2Model ----
(***************************************************************************)
(* PBPS Emote Search (src/main.py): the list cache, the detail cache and   *)
(* the three request handlers, with strings modelled as sequences of       *)
(* one-character strings so that norm / split / strip / sort are computed. *)
(***************************************************************************)
EXTENDS Integers, Sequences, FiniteSets, TLC

\* ------------------------------------------------------------------------
\* Strings.  Alphabet lists the supported characters in code-point order:
\* newline, space, '-', '0'..'9', ':', 'A'..'Z', 'a'..'z'.
\* ------------------------------------------------------------------------
Alphabet ==
  << "\n", " ", "-",
     "0", "1", "2", "3", "4", "5", "6", "7", "8", "9", ":",
     "A", "B", "C", "D", "E", "F", "G", "H", "I", "J", "K", "L", "M",
     "N", "O", "P", "Q", "R", "S", "T", "U", "V", "W", "X", "Y", "Z",
     "a", "b", "c", "d", "e", "f", "g", "h", "i", "j", "k", "l", "m",
     "n", "o", "p", "q", "r", "s", "t", "u", "v", "w", "x", "y", "z" >>

Code(c) == CHOOSE i \in 1..Len(Alphabet) : Alphabet[i] = c

\* the whitespace characters of the alphabet
IsSpace(c) == c \in {" ", "\n"}

\* str.lower() on one character
LowerChar(c) == IF Code(c) \in 15..40 THEN Alphabet[Code(c) + 26] ELSE c

\* str.lower()
lower(s) == [i \in 1..Len(s) |-> LowerChar(s[i])]

\* the character class [a-z0-9] of the regular expression in norm
InClass(c) == Code(c) \in (4..13) \cup (41..66)

\* a norm that forgets to lowercase before filtering
norm_nolower(s) == SelectSeq(s, InClass)

\* norm(s) = re.sub(r"[^a-z0-9]+", "", s.lower())
norm(s) == SelectSeq(lower(s), InClass)

\* str.strip()
strip(s) ==
  LET keep == {i \in 1..Len(s) : ~IsSpace(s[i])}
  IN  IF keep = {} THEN << >>
      ELSE SubSeq(s, CHOOSE i \in keep : \A j \in keep : i <= j,
                     CHOOSE i \in keep : \A j \in keep : i >= j)

RECURSIVE splitFrom(_, _, _, _)
splitFrom(s, i, cur, acc) ==
  IF i > Len(s)
  THEN IF cur = << >> THEN acc ELSE Append(acc, cur)
  ELSE IF IsSpace(s[i])
       THEN splitFrom(s, i + 1, << >>, IF cur = << >> THEN acc ELSE Append(acc, cur))
       ELSE splitFrom(s, i + 1, Append(cur, s[i]), acc)

\* str.split() with no argument: split on runs of whitespace
split(s) == splitFrom(s, 1, << >>, << >>)

\* Python's  term in s  for strings
contains(term, s) ==
  \E k \in 0..(Len(s) - Len(term)) : SubSeq(s, k + 1, k + Len(term)) = term

\* lexicographic  a < b  on strings, by code point
RECURSIVE strLess(_, _)
strLess(a, b) ==
  IF b = << >> THEN FALSE
  ELSE IF a = << >> THEN TRUE
  ELSE IF Code(a[1]) # Code(b[1]) THEN Code(a[1]) < Code(b[1])
  ELSE strLess(Tail(a), Tail(b))

\* optional values: None or a value
None == << >>
Some(x) == << x >>

\* ------------------------------------------------------------------------
\* String literals used as inputs (names, queries).
\* ------------------------------------------------------------------------
sGoldenGoat == << "G", "o", "l", "d", "e", "n", " ", "G", "o", "a", "t" >>

sGoldenFrog == << "G", "o", "l", "d", "e", "n", " ", "F", "r", "o", "g" >>

sGoatGolden == << "G", "o", "a", "t", " ", "G", "o", "l", "d", "e", "n" >>

sZeta == << "Z", "e", "t", "a" >>

sAlpha == << "A", "l", "p", "h", "a" >>

sbeta == << "b", "e", "t", "a" >>

sBlank == << " " >>

sZetaPadded == << " ", "Z", "e", "t", "a" >>

qEmpty == << >>

qGolden == << "g", "o", "l", "d", "e", "n" >>

qGoat == << "g", "o", "a", "t" >>

qGoldenGoatLower == << "g", "o", "l", "d", "e", "n", " ", "g", "o", "a", "t" >>

qGoatGoldenLower == << "g", "o", "a", "t", " ", "g", "o", "l", "d", "e", "n" >>

qGoldenGoat == << "G", "o", "l", "d", "e", "n", " ", "G", "o", "a", "t" >>

qGoldengoat == << "g", "o", "l", "d", "e", "n", "g", "o", "a", "t" >>

qGOLDENGOAT == << "G", "O", "L", "D", "E", "N", "-", "G", "O", "A", "T" >>

qDash == << "-" >>

qSpaces == << " ", " " >>

sExpires == << "E", "x", "p", "i", "r", "e", "s", ":" >>

sEmoteNotFound == << "E", "m", "o", "t", "e", " ", "n", "o", "t", " ", "f", "o", "u", "n", "d" >>

sSomeChannel == << "S", "o", "m", "e", "C", "h", "a", "n", "n", "e", "l" >>

sSubGift == << "S", "u", "b", " ", "G", "i", "f", "t" >>

sTier3 == << "T", "i", "e", "r", " ", "3" >>

sDate == << "2", "0", "2", "5", "-", "0", "1", "-", "0", "1" >>

\* ------------------------------------------------------------------------
\* Tiles and the tile extractor (fetch_emote_tiles_rendered).
\* ------------------------------------------------------------------------
Tile(n, u) == [name |-> n, imageUrl |-> u]

\* lines 86-93: strip each name, drop empty names and names already seen
RECURSIVE dedup(_, _, _)
dedup(raw, seen, out) ==
  IF raw = << >> THEN out
  ELSE LET n == strip(raw[1].name)
       IN  IF n = << >> \/ n \in seen
           THEN dedup(Tail(raw), seen, out)
           ELSE dedup(Tail(raw), seen \cup {n}, Append(out, Tile(n, raw[1].imageUrl)))

\* the sort key of line 95
sortKey(t) == lower(t.name)

\* insert x behind every element whose key is <= the key of x (stable)
RECURSIVE insertSorted(_, _)
insertSorted(sorted, x) ==
  IF sorted = << >> THEN << x >>
  ELSE IF strLess(sortKey(x), sortKey(sorted[1]))
       THEN << x >> \o sorted
       ELSE << sorted[1] >> \o insertSorted(Tail(sorted), x)

\* list.sort(key=...) : a stable sort
RECURSIVE sortTiles(_, _)
sortTiles(todo, acc) ==
  IF todo = << >> THEN acc
  ELSE sortTiles(Tail(todo), insertSorted(acc, todo[1]))

\* lines 85-93 without the sort of line 95
fetch_emote_tiles_rendered_unsorted(raw) == dedup(raw, {}, << >>)

\* lines 85-96 applied to the list the page evaluation returned
fetch_emote_tiles_rendered(raw) == sortTiles(dedup(raw, {}, << >>), << >>)

\* ------------------------------------------------------------------------
\* Search (api_emotes, lines 204-206 and 211).
\* ------------------------------------------------------------------------
\* line 205: terms = [norm(t) for t in q.split() if t.strip()]
searchTerms(q) ==
  LET parts == split(q)
      nonblank(t) == strip(t) # << >>
      kept == SelectSeq(parts, nonblank)
  IN  [i \in 1..Len(kept) |-> norm(kept[i])]

\* line 206: all(term in norm(t["name"]) for term in terms)
tileMatches(t, terms) ==
  \A i \in 1..Len(terms) : contains(terms[i], norm(t.name))

\* lines 204-206: the filtered list (the whole list when q is empty)
searchTiles(tiles, q) ==
  IF q # << >>
  THEN LET terms == searchTerms(q)
           ok(t) == tileMatches(t, terms)
       IN  SelectSeq(tiles, ok)
  ELSE tiles

\* tiles[:limit]
take(s, n) == SubSeq(s, 1, IF n < Len(s) THEN n ELSE Len(s))

\* ------------------------------------------------------------------------
\* The rendered catalog: what the page evaluation of lines 62-81 may return
\* (names are non-empty, the JavaScript filter drops the others).
\* ------------------------------------------------------------------------
U1 == Some("u1")
U2 == Some("u2")
U3 == Some("u3")

RawGolden == << Tile(sGoldenGoat, U1), Tile(sGoldenFrog, U2) >>
RawZeta == << Tile(sZeta, U1), Tile(sAlpha, U2), Tile(sZetaPadded, U3) >>
RawMixed == << Tile(sGoatGolden, None), Tile(sbeta, U2), Tile(sGoldenGoat, U3), Tile(sBlank, U1) >>
RawBlank == << Tile(sBlank, U1) >>
RawNone == << >>

RawPages == {RawGolden, RawZeta, RawMixed, RawBlank, RawNone}

RawPagesFew == {RawGolden, RawZeta, RawBlank}

\* ------------------------------------------------------------------------
\* The detail extractor (parse_emote_details).  A rendered detail page is
\* [links, text]: the anchors matched by the selector of line 128, each with
\* its href and its stripped visible text, and the lines of
\* soup.get_text("\n").splitlines().
\* ------------------------------------------------------------------------
BASE_URL == << "h", "t", "t", "p", "s", ":", "/", "/", "p", "i", "x", "e", "l", "b", "y", "p", "i", "x", "e", "l", ".", "s", "t", "u", "d", "i", "o", "/", "e", "m", "o", "t", "e", "s" >>

sEmoteNameParam == << "?", "e", "m", "o", "t", "e", "N", "a", "m", "e", "=" >>

sTwitchUrl == << "h", "t", "t", "p", "s", ":", "/", "/", "w", "w", "w", ".", "t", "w", "i", "t", "c", "h", ".", "t", "v", "/", "s", "o", "m", "e", "c", "h", "a", "n", "n", "e", "l", "/", "v", "i", "d", "e", "o", "s" >>

sPaddedTier == << " ", " ", "T", "i", "e", "r", " ", "3", " " >>

\* list.index(x) without its start argument
indexFrom_fromStart(s, x, from) ==
  LET hits == {k \in 1..Len(s) : s[k] = x}
  IN  IF hits = {} THEN 0 ELSE CHOOSE k \in hits : \A j \in hits : k <= j

\* index of the first element of s equal to x at a position >= from (0 if none):
\* list.index(x, start), with 0 standing for ValueError
indexFrom(s, x, from) ==
  LET hits == {k \in from..Len(s) : s[k] = x}
  IN  IF hits = {} THEN 0 ELSE CHOOSE k \in hits : \A j \in hits : k <= j

\* "\n".join(lines)
RECURSIVE joinLines(_)
joinLines(lines) ==
  IF lines = << >> THEN << >>
  ELSE IF Len(lines) = 1 THEN lines[1]
  ELSE lines[1] \o << "\n" >> \o joinLines(Tail(lines))

\* str.strip("/")
stripSlash(s) ==
  LET keep == {i \in 1..Len(s) : s[i] # "/"}
  IN  IF keep = {} THEN << >>
      ELSE SubSeq(s, CHOOSE i \in keep : \A j \in keep : i <= j,
                     CHOOSE i \in keep : \A j \in keep : i >= j)

\* urlparse(url).path for  scheme://netloc/path?query#fragment
urlPath(url) ==
  LET cut(u, ch) == LET k == indexFrom(u, ch, 1)
                    IN  IF k = 0 THEN u ELSE SubSeq(u, 1, k - 1)
      noFrag == cut(url, "#")
      noQuery == cut(noFrag, "?")
      colon == indexFrom(noQuery, ":", 1)
      hasNetloc == /\ colon # 0
                   /\ colon + 2 <= Len(noQuery)
                   /\ noQuery[colon + 1] = "/"
                   /\ noQuery[colon + 2] = "/"
      rest == IF hasNetloc THEN SubSeq(noQuery, colon + 3, Len(noQuery)) ELSE noQuery
      slash == indexFrom(rest, "/", 1)
  IN  IF ~hasNetloc THEN rest
      ELSE IF slash = 0 THEN << >>
      ELSE SubSeq(rest, slash, Len(rest))

\* path.split("/")[0]
firstSegment(path) ==
  LET k == indexFrom(path, "/", 1)
  IN  IF k = 0 THEN path ELSE SubSeq(path, 1, k - 1)

\* lines 126-134: the first anchor with an href and visible text
channelLink(links) ==
  LET ok == {k \in 1..Len(links) : links[k].href # << >> /\ links[k].txt # << >>}
  IN  IF ok = {} THEN 0 ELSE CHOOSE k \in ok : \A j \in ok : k <= j

\* line 145: lines = [x.strip() for x in ... if x.strip()]
flattenLines(text) ==
  LET nonblank(x) == strip(x) # << >>
      kept == SelectSeq(text, nonblank)
  IN  [i \in 1..Len(kept) |-> strip(kept[i])]

\* lines 122-188
parse_emote_details(emote_name, html) ==
  LET k == channelLink(html.links)
      channel_url == IF k = 0 THEN None ELSE Some(html.links[k].href)
      label0 == IF k = 0 THEN None ELSE Some(html.links[k].txt)
      path == IF channel_url = None THEN << >> ELSE stripSlash(urlPath(channel_url[1]))
      channel_label ==
        IF (label0 = None \/ label0 = Some(<< >>)) /\ channel_url # None /\ path # << >>
        THEN Some(firstSegment(path))
        ELSE label0
      lines == flattenLines(html.text)
      joined == joinLines(lines)
      not_found == contains(sEmoteNotFound, joined)
      i == indexFrom(lines, emote_name, 1)
      source == IF i # 0 /\ i + 2 <= Len(lines) THEN Some(lines[i + 2]) ELSE None
      tier == IF i # 0 /\ i + 3 <= Len(lines) THEN Some(lines[i + 3]) ELSE None
      exp_i == indexFrom(lines, sExpires, IF i # 0 THEN i ELSE 1)
      expires == IF exp_i # 0 /\ exp_i + 1 <= Len(lines) THEN Some(lines[exp_i + 1]) ELSE None
  IN  [emoteName |-> emote_name,
       channel |-> channel_label,
       channelUrl |-> channel_url,
       source |-> source,
       tier |-> tier,
       expires |-> expires,
       detailsUrl |-> BASE_URL \o sEmoteNameParam \o emote_name,
       notFound |-> not_found]

\* what _render_page_html may return for a detail URL
HtmlFull ==
  [links |-> << [href |-> sTwitchUrl, txt |-> sSomeChannel] >>,
   text |-> << sGoldenGoat, sBlank, sSomeChannel, sSubGift, sPaddedTier, sExpires, sDate >>]

HtmlNotFound == [links |-> << >>, text |-> << sEmoteNotFound >>]

HtmlNoText ==
  [links |-> << [href |-> sTwitchUrl, txt |-> << >>] >>,
   text |-> << sExpires, sDate, sGoldenGoat, sSubGift >>]

DetailPages == {HtmlFull, HtmlNotFound}

\* ------------------------------------------------------------------------
\* State.
\* ------------------------------------------------------------------------
\* time.time() at start-up, in epoch seconds
T0 == 1700000000

\* the instants the clock is observed at, as offsets from T0
Offsets == {0, 21600, 86399, 86400}

OffsetsList == {0, 3599, 3601, 21599, 21600}

OffsetsSearch == {0, 21600}

\* default of max_age_seconds (line 99)
DEFAULT_MAX_AGE == 6 * 60 * 60

\* max_age_seconds passed by api_refresh (line 219)
REFRESH_MAX_AGE == 0

\* max_age_seconds of the direct calls
MaxAges == {REFRESH_MAX_AGE, 3600, DEFAULT_MAX_AGE}

\* maximum age of a detail-cache entry (line 230)
DETAIL_MAX_AGE == 24 * 60 * 60

\* request workers (sync endpoints run on worker threads)
Threads == {1, 2}

Queries == {qEmpty, qGolden, qGoldenGoatLower, qGoatGoldenLower,
            qGoldenGoat, qGoldengoat, qGOLDENGOAT, qDash, qSpaces}

\* limit: Query(ge=1, le=2000), default 300
Limits == {1, 2, 300, 2000}

QueriesFew == {qGolden, qGoldenGoat}

LimitsFew == {1, 2000}

QueriesOne == {qGolden}

LimitsOne == {1}

DetailNames == {sGoldenGoat, sZeta}

VARIABLES
  now,                \* the wall clock (time.time())
  _emote_list_cache,  \* [updated_at, tiles]
  _detail_cache,      \* name -> None or Some([cachedAt, data])
  workers,            \* the worker threads that serve requests
  pc,                 \* per thread: the statement it is about to execute
  req,                \* per thread: the request being served
  ens,                \* per thread: the frame of ensure_emote_list
  loc,                \* per thread: locals of the handler
  resp,               \* per thread: the response of the request
  hist,               \* per thread: what the request did (observation only)
  obs,                \* a search response a client remembered (observation only)
  wrote,              \* which request wrote each field of the list cache (observation only)
  probe               \* input and output of an extractor applied on its own

vars == << now, _emote_list_cache, _detail_cache, workers, pc, req, ens, loc, resp, hist, obs,
           wrote, probe >>

NoReq == [op |-> "none", q |-> << >>, limit |-> 0, name |-> << >>]
NoEns == [max_age |-> 0, now |-> 0, tiles |-> << >>, result |-> "none",
          pre |-> None, rendered |-> 0]
NoLoc == [tiles |-> << >>, count |-> 0, data |-> None]
NoResp == [status |-> 0, count |-> 0, updatedAt |-> 0, items |-> << >>, data |-> None]
NoHist == [pre |-> None, dpre |-> None, listRenders |-> 0, detailRenders |-> 0,
           enrich |-> "none", checkedAt |-> 0]

EmptyListCache == [updated_at |-> 0, tiles |-> << >>]

\* the program's state after construction
InitBase ==
  /\ now = T0
  /\ _emote_list_cache = EmptyListCache
  /\ _detail_cache = [n \in DetailNames |-> None]
  /\ pc = [t \in Threads |-> "idle"]
  /\ req = [t \in Threads |-> NoReq]
  /\ ens = [t \in Threads |-> NoEns]
  /\ loc = [t \in Threads |-> NoLoc]
  /\ resp = [t \in Threads |-> NoResp]
  /\ hist = [t \in Threads |-> NoHist]
  /\ obs = None
  /\ wrote = [tiles |-> 0, updated_at |-> 0]

InitCommon == InitBase /\ probe = None

\* one request at a time
Init == InitCommon /\ workers = {1}

\* the remembered response, marked with an event that happened after it
obsMark(field) == IF obs = None THEN obs ELSE Some([obs[1] EXCEPT ![field] = TRUE])

\* the request of t is over: what it wrote is now the work of an earlier request
wroteAfter(t) == [f \in DOMAIN wrote |-> IF wrote[f] = t THEN 0 ELSE wrote[f]]

\* the clock moves forward between any two steps
Tick(offsets) ==
  /\ \E o \in offsets : T0 + o > now /\ now' = T0 + o
  /\ UNCHANGED << _emote_list_cache, _detail_cache, workers, wrote, probe, obs, pc, req, ens, loc, resp, hist >>

\* ------------------------------------------------------------------------
\* ensure_emote_list (lines 99-119), one action per access to shared state.
\* ------------------------------------------------------------------------
\* the callee frame on entry to ensure_emote_list(max_age_seconds)
EnsFrame(max_age, cache) ==
  [max_age |-> max_age, now |-> 0, tiles |-> << >>, result |-> "none",
   pre |-> Some(cache), rendered |-> 0]

\* line 103, left operand: the truthiness of the cached list
hasTiles(tiles) == tiles # << >>

\* a check that accepts an entry whose age equals max_age
ageOk_inclusive(n, updated_at, max_age) == n - updated_at <= max_age

\* line 103, right operand
ageOk(n, updated_at, max_age) == n - updated_at < max_age

\* a check that takes an empty list for "nothing to refresh" and returns
EnsCheck_skipEmpty(t) ==
  /\ pc[t] = "ens_check"
  /\ ens' = [ens EXCEPT ![t].now = now,
                        ![t].result = IF hasTiles(_emote_list_cache.tiles) THEN @ ELSE "ok"]
  /\ pc' = [pc EXCEPT ![t] = IF hasTiles(_emote_list_cache.tiles)
                             THEN "ens_age" ELSE "ens_ret"]
  /\ UNCHANGED << now, _emote_list_cache, _detail_cache, workers, wrote, probe, obs, req, loc, resp, hist >>

\* lines 100 and 103 (left operand): read the clock, test the list
EnsCheck(t) ==
  /\ pc[t] = "ens_check"
  /\ ens' = [ens EXCEPT ![t].now = now]
  /\ pc' = [pc EXCEPT ![t] = IF hasTiles(_emote_list_cache.tiles)
                             THEN "ens_age" ELSE "ens_fetch"]
  /\ UNCHANGED << now, _emote_list_cache, _detail_cache, workers, wrote, probe, obs, req, loc, resp, hist >>

\* lines 103-104: the list is non-empty; return if it is young enough
EnsAge(t) ==
  /\ pc[t] = "ens_age"
  /\ IF ageOk(ens[t].now, _emote_list_cache.updated_at, ens[t].max_age)
     THEN /\ ens' = [ens EXCEPT ![t].result = "ok"]
          /\ pc' = [pc EXCEPT ![t] = "ens_ret"]
     ELSE /\ ens' = ens
          /\ pc' = [pc EXCEPT ![t] = "ens_fetch"]
  /\ UNCHANGED << now, _emote_list_cache, _detail_cache, workers, wrote, probe, obs, req, loc, resp, hist >>

\* a failure path that also resets the timestamp
EnsFetchFail_resets(t) ==
  /\ pc[t] = "ens_fetch"
  /\ _emote_list_cache' = [_emote_list_cache EXCEPT !.updated_at = 0]
  /\ ens' = [ens EXCEPT ![t].result = "500", ![t].rendered = @ + 1]
  /\ hist' = [hist EXCEPT ![t].listRenders = @ + 1]
  /\ pc' = [pc EXCEPT ![t] = "ens_ret"]
  /\ UNCHANGED << now, _detail_cache, workers, wrote, probe, obs, req, loc, resp >>

\* lines 106-112, the browser fails with a Playwright error: HTTP 500
EnsFetchFail(t) ==
  /\ pc[t] = "ens_fetch"
  /\ ens' = [ens EXCEPT ![t].result = "500", ![t].rendered = @ + 1]
  /\ hist' = [hist EXCEPT ![t].listRenders = @ + 1]
  /\ pc' = [pc EXCEPT ![t] = "ens_ret"]
  /\ UNCHANGED << now, _emote_list_cache, _detail_cache, workers, wrote, probe, obs, req, loc, resp >>

\* line 107 raises something that is not a Playwright error: it propagates
EnsFetchRaise(t) ==
  /\ pc[t] = "ens_fetch"
  /\ ens' = [ens EXCEPT ![t].result = "exception", ![t].rendered = @ + 1]
  /\ hist' = [hist EXCEPT ![t].listRenders = @ + 1]
  /\ pc' = [pc EXCEPT ![t] = "ens_ret"]
  /\ UNCHANGED << now, _emote_list_cache, _detail_cache, workers, wrote, probe, obs, req, loc, resp >>

\* lines 107 and 114: the render succeeds and the tiles are extracted
EnsFetchOk(t, pages) ==
  /\ pc[t] = "ens_fetch"
  /\ \E raw \in pages :
       LET tiles == fetch_emote_tiles_rendered(raw)
       IN  /\ ens' = [ens EXCEPT ![t].tiles = tiles, ![t].rendered = @ + 1]
           /\ pc' = [pc EXCEPT ![t] = IF tiles = << >> THEN "ens_zero"
                                      ELSE "ens_store_tiles"]
  /\ hist' = [hist EXCEPT ![t].listRenders = @ + 1]
  /\ UNCHANGED << now, _emote_list_cache, _detail_cache, workers, wrote, probe, obs, req, loc, resp >>

\* a zero-tile path that also empties the list
EnsZero_clears(t) ==
  /\ pc[t] = "ens_zero"
  /\ _emote_list_cache' = [updated_at |-> 0, tiles |-> << >>]
  /\ ens' = [ens EXCEPT ![t].result = "502"]
  /\ pc' = [pc EXCEPT ![t] = "ens_ret"]
  /\ UNCHANGED << now, _detail_cache, workers, wrote, probe, obs, req, loc, resp, hist >>

\* a zero-tile path that raises without resetting the timestamp
EnsZero_keeps(t) ==
  /\ pc[t] = "ens_zero"
  /\ ens' = [ens EXCEPT ![t].result = "502"]
  /\ pc' = [pc EXCEPT ![t] = "ens_ret"]
  /\ UNCHANGED << now, _emote_list_cache, _detail_cache, workers, wrote, probe, obs, req, loc, resp, hist >>

\* lines 115-116: no tiles; reset the timestamp and raise HTTP 502
EnsZero(t) ==
  /\ pc[t] = "ens_zero"
  /\ _emote_list_cache' = [_emote_list_cache EXCEPT !.updated_at = 0]
  /\ ens' = [ens EXCEPT ![t].result = "502"]
  /\ pc' = [pc EXCEPT ![t] = "ens_ret"]
  /\ wrote' = [wrote EXCEPT !.updated_at = t]
  /\ UNCHANGED << now, _detail_cache, workers, probe, obs, req, loc, resp, hist >>

\* line 118
EnsStoreTiles(t) ==
  /\ pc[t] = "ens_store_tiles"
  /\ _emote_list_cache' = [_emote_list_cache EXCEPT !.tiles = ens[t].tiles]
  /\ pc' = [pc EXCEPT ![t] = "ens_store_time"]
  /\ obs' = obsMark("stored")
  /\ wrote' = [wrote EXCEPT !.tiles = t]
  /\ UNCHANGED << now, _detail_cache, workers, probe, req, ens, loc, resp, hist >>

\* line 119
EnsStoreTime(t) ==
  /\ pc[t] = "ens_store_time"
  /\ _emote_list_cache' = [_emote_list_cache EXCEPT !.updated_at = ens[t].now]
  /\ ens' = [ens EXCEPT ![t].result = "ok"]
  /\ pc' = [pc EXCEPT ![t] = "ens_ret"]
  /\ wrote' = [wrote EXCEPT !.updated_at = t]
  /\ UNCHANGED << now, _detail_cache, workers, probe, obs, req, loc, resp, hist >>

\* ------------------------------------------------------------------------
\* Requests.
\* ------------------------------------------------------------------------
\* what a handler starts from
StartHist == [NoHist EXCEPT !.pre = Some(_emote_list_cache),
                            !.dpre = Some(_detail_cache)]

\* the status an error leaving a handler is answered with: HTTPException
\* carries its own status, anything else goes through all_exception_handler
statusOf(result) == IF result = "502" THEN 502 ELSE 500

\* GET /api/emotes?q=..&limit=.. arrives; line 201 calls ensure_emote_list()
StartEmotes(t, queries, limits) ==
  /\ t \in workers
  /\ pc[t] = "idle"
  /\ \E q \in queries, limit \in limits :
       req' = [req EXCEPT ![t] = [op |-> "emotes", q |-> q, limit |-> limit, name |-> << >>]]
  /\ ens' = [ens EXCEPT ![t] = EnsFrame(DEFAULT_MAX_AGE, _emote_list_cache)]
  /\ hist' = [hist EXCEPT ![t] = StartHist]
  /\ loc' = [loc EXCEPT ![t] = NoLoc]
  /\ resp' = [resp EXCEPT ![t] = NoResp]
  /\ pc' = [pc EXCEPT ![t] = "ens_check"]
  /\ UNCHANGED << now, _emote_list_cache, _detail_cache, workers, wrote, probe, obs >>

\* a handler that truncates before it counts
EmotesRead_countsItems(t) ==
  /\ pc[t] = "ens_ret" /\ req[t].op = "emotes" /\ ens[t].result = "ok"
  /\ LET tiles == take(searchTiles(_emote_list_cache.tiles, req[t].q), req[t].limit)
     IN  loc' = [loc EXCEPT ![t].tiles = tiles, ![t].count = Len(tiles)]
  /\ pc' = [pc EXCEPT ![t] = "emotes_resp"]
  /\ UNCHANGED << now, _emote_list_cache, _detail_cache, workers, wrote, probe, obs, req, ens, resp, hist >>

\* lines 202-209: read the list, filter it by the query, count the matches
EmotesRead(t) ==
  /\ pc[t] = "ens_ret" /\ req[t].op = "emotes" /\ ens[t].result = "ok"
  /\ LET tiles == searchTiles(_emote_list_cache.tiles, req[t].q)
     IN  loc' = [loc EXCEPT ![t].tiles = tiles, ![t].count = Len(tiles)]
  /\ pc' = [pc EXCEPT ![t] = "emotes_resp"]
  /\ UNCHANGED << now, _emote_list_cache, _detail_cache, workers, wrote, probe, obs, req, ens, resp, hist >>

\* a handler that truncates the cached list itself (the local aliases it)
EmotesResp_truncatesCache(t) ==
  /\ pc[t] = "emotes_resp"
  /\ resp' = [resp EXCEPT ![t] = [NoResp EXCEPT !.status = 200,
                                                !.count = loc[t].count,
                                                !.updatedAt = _emote_list_cache.updated_at,
                                                !.items = take(loc[t].tiles, req[t].limit)]]
  /\ _emote_list_cache' = [_emote_list_cache EXCEPT !.tiles = take(@, req[t].limit)]
  /\ pc' = [pc EXCEPT ![t] = "done"]
  /\ UNCHANGED << now, _detail_cache, workers, wrote, probe, obs, req, ens, loc, hist >>

\* lines 208-212: read updated_at, truncate, answer
EmotesResp(t) ==
  /\ pc[t] = "emotes_resp"
  /\ resp' = [resp EXCEPT ![t] = [NoResp EXCEPT !.status = 200,
                                                !.count = loc[t].count,
                                                !.updatedAt = _emote_list_cache.updated_at,
                                                !.items = take(loc[t].tiles, req[t].limit)]]
  /\ pc' = [pc EXCEPT ![t] = "done"]
  /\ UNCHANGED << now, _emote_list_cache, _detail_cache, workers, wrote, probe, obs, req, ens, loc, hist >>

\* POST /api/refresh arrives
StartRefresh(t) ==
  /\ t \in workers
  /\ pc[t] = "idle"
  /\ req' = [req EXCEPT ![t] = [NoReq EXCEPT !.op = "refresh"]]
  /\ hist' = [hist EXCEPT ![t] = StartHist]
  /\ loc' = [loc EXCEPT ![t] = NoLoc]
  /\ resp' = [resp EXCEPT ![t] = NoResp]
  /\ pc' = [pc EXCEPT ![t] = "refresh_clear_time"]
  /\ obs' = obsMark("posted")
  /\ UNCHANGED << now, _emote_list_cache, _detail_cache, workers, wrote, probe, ens >>

\* line 217
RefreshClearTime(t) ==
  /\ pc[t] = "refresh_clear_time"
  /\ _emote_list_cache' = [_emote_list_cache EXCEPT !.updated_at = 0]
  /\ pc' = [pc EXCEPT ![t] = "refresh_clear_tiles"]
  /\ wrote' = [wrote EXCEPT !.updated_at = t]
  /\ UNCHANGED << now, _detail_cache, workers, probe, obs, req, ens, loc, resp, hist >>

\* lines 218-219: clear the list, call ensure_emote_list(max_age_seconds=0)
RefreshClearTiles(t) ==
  /\ pc[t] = "refresh_clear_tiles"
  /\ _emote_list_cache' = [_emote_list_cache EXCEPT !.tiles = << >>]
  /\ ens' = [ens EXCEPT ![t] = EnsFrame(REFRESH_MAX_AGE, _emote_list_cache')]
  /\ pc' = [pc EXCEPT ![t] = "ens_check"]
  /\ wrote' = [wrote EXCEPT !.tiles = t]
  /\ UNCHANGED << now, _detail_cache, workers, probe, obs, req, loc, resp, hist >>

\* line 222
RefreshCount(t) ==
  /\ pc[t] = "ens_ret" /\ req[t].op = "refresh" /\ ens[t].result = "ok"
  /\ loc' = [loc EXCEPT ![t].count = Len(_emote_list_cache.tiles)]
  /\ pc' = [pc EXCEPT ![t] = "refresh_resp"]
  /\ UNCHANGED << now, _emote_list_cache, _detail_cache, workers, wrote, probe, obs, req, ens, resp, hist >>

\* lines 220-224
RefreshResp(t) ==
  /\ pc[t] = "refresh_resp"
  /\ resp' = [resp EXCEPT ![t] = [NoResp EXCEPT !.status = 200,
                                                !.count = loc[t].count,
                                                !.updatedAt = _emote_list_cache.updated_at]]
  /\ pc' = [pc EXCEPT ![t] = "done"]
  /\ UNCHANGED << now, _emote_list_cache, _detail_cache, workers, wrote, probe, obs, req, ens, loc, hist >>

\* lines 201 and 219: an error raised by ensure_emote_list leaves the handler
HandlerRaises(t) ==
  /\ pc[t] = "ens_ret" /\ req[t].op \in {"emotes", "refresh"} /\ ens[t].result # "ok"
  /\ resp' = [resp EXCEPT ![t] = [NoResp EXCEPT !.status = statusOf(ens[t].result)]]
  /\ pc' = [pc EXCEPT ![t] = "done"]
  /\ UNCHANGED << now, _emote_list_cache, _detail_cache, workers, wrote, probe, obs, req, ens, loc, hist >>

\* a check that applies the list cache's max age to detail entries
detailFresh_listAge(cached, n) == cached # None /\ n - cached[1].cachedAt < DEFAULT_MAX_AGE

\* line 230: the entry exists and is younger than 24 hours
detailFresh(cached, n) == cached # None /\ n - cached[1].cachedAt < DETAIL_MAX_AGE

\* lines 249-252: imageUrl of the first tile with that exact name, else None
lookupImage(tiles, emote_name) ==
  LET hits == {k \in 1..Len(tiles) : tiles[k].name = emote_name}
  IN  IF hits = {} THEN None
      ELSE tiles[CHOOSE k \in hits : \A j \in hits : k <= j].imageUrl

\* data["imageUrl"] = img
withImage(data, img) ==
  [emoteName |-> data.emoteName, channel |-> data.channel,
   channelUrl |-> data.channelUrl, source |-> data.source, tier |-> data.tier,
   expires |-> data.expires, detailsUrl |-> data.detailsUrl,
   notFound |-> data.notFound, imageUrl |-> img]

\* GET /api/emotes/{emote_name} arrives
StartDetail(t, names) ==
  /\ t \in workers
  /\ pc[t] = "idle"
  /\ \E n \in names : req' = [req EXCEPT ![t] = [NoReq EXCEPT !.op = "detail", !.name = n]]
  /\ hist' = [hist EXCEPT ![t] = StartHist]
  /\ loc' = [loc EXCEPT ![t] = NoLoc]
  /\ resp' = [resp EXCEPT ![t] = NoResp]
  /\ pc' = [pc EXCEPT ![t] = "detail_check"]
  /\ UNCHANGED << now, _emote_list_cache, _detail_cache, workers, wrote, probe, obs, ens >>

\* lines 229-231: answer from the detail cache when the entry is fresh
DetailCheck(t) ==
  /\ pc[t] = "detail_check"
  /\ LET cached == _detail_cache[req[t].name]
     IN  IF detailFresh(cached, now)
         THEN /\ resp' = [resp EXCEPT ![t] = [NoResp EXCEPT !.status = 200,
                                                            !.data = Some(cached[1].data)]]
              /\ pc' = [pc EXCEPT ![t] = "done"]
         ELSE /\ resp' = resp
              /\ pc' = [pc EXCEPT ![t] = "detail_render"]
  /\ hist' = [hist EXCEPT ![t].checkedAt = now]
  /\ UNCHANGED << now, _emote_list_cache, _detail_cache, workers, wrote, probe, obs, req, ens, loc >>

\* a failed render that also drops the entry stored under the name
DetailRenderFail_evicts(t) ==
  /\ pc[t] = "detail_render"
  /\ hist' = [hist EXCEPT ![t].detailRenders = @ + 1]
  /\ _detail_cache' = [_detail_cache EXCEPT ![req[t].name] = None]
  /\ resp' = [resp EXCEPT ![t] = [NoResp EXCEPT !.status = 500]]
  /\ pc' = [pc EXCEPT ![t] = "done"]
  /\ UNCHANGED << now, _emote_list_cache, workers, wrote, probe, obs, req, ens, loc >>

\* lines 235-242: the detail render fails
DetailRenderFail(t) ==
  /\ pc[t] = "detail_render"
  /\ hist' = [hist EXCEPT ![t].detailRenders = @ + 1]
  /\ resp' = [resp EXCEPT ![t] = [NoResp EXCEPT !.status = 500]]
  /\ pc' = [pc EXCEPT ![t] = "done"]
  /\ UNCHANGED << now, _emote_list_cache, _detail_cache, workers, wrote, probe, obs, req, ens, loc >>

\* lines 237, 244 and 248: render, parse, call ensure_emote_list()
DetailRenderOk(t, pages) ==
  /\ pc[t] = "detail_render"
  /\ \E html \in pages :
       loc' = [loc EXCEPT ![t].data = Some(parse_emote_details(req[t].name, html))]
  /\ hist' = [hist EXCEPT ![t].detailRenders = @ + 1]
  /\ ens' = [ens EXCEPT ![t] = EnsFrame(DEFAULT_MAX_AGE, _emote_list_cache)]
  /\ pc' = [pc EXCEPT ![t] = "ens_check"]
  /\ UNCHANGED << now, _emote_list_cache, _detail_cache, workers, wrote, probe, obs, req, resp >>

\* lines 249-253: attach the image of the tile with the requested name
DetailLookup(t) ==
  /\ pc[t] = "ens_ret" /\ req[t].op = "detail" /\ ens[t].result = "ok"
  /\ loc' = [loc EXCEPT ![t].data =
               Some(withImage(@[1], lookupImage(_emote_list_cache.tiles, req[t].name)))]
  /\ hist' = [hist EXCEPT ![t].enrich = "ok"]
  /\ pc' = [pc EXCEPT ![t] = "detail_store"]
  /\ UNCHANGED << now, _emote_list_cache, _detail_cache, workers, wrote, probe, obs, req, ens, resp >>

\* an enrichment whose error leaves the handler
DetailSwallow_propagates(t) ==
  /\ pc[t] = "ens_ret" /\ req[t].op = "detail" /\ ens[t].result # "ok"
  /\ resp' = [resp EXCEPT ![t] = [NoResp EXCEPT !.status = statusOf(ens[t].result)]]
  /\ hist' = [hist EXCEPT ![t].enrich = "failed"]
  /\ pc' = [pc EXCEPT ![t] = "done"]
  /\ UNCHANGED << now, _emote_list_cache, _detail_cache, workers, wrote, probe, obs, req, ens, loc >>

\* lines 254-255: any error of the enrichment is swallowed
DetailSwallow(t) ==
  /\ pc[t] = "ens_ret" /\ req[t].op = "detail" /\ ens[t].result # "ok"
  /\ loc' = [loc EXCEPT ![t].data = Some(withImage(@[1], None))]
  /\ hist' = [hist EXCEPT ![t].enrich = "failed"]
  /\ pc' = [pc EXCEPT ![t] = "detail_store"]
  /\ UNCHANGED << now, _emote_list_cache, _detail_cache, workers, wrote, probe, obs, req, ens, resp >>

\* lines 257-258: store under the requested name, answer
DetailStore(t) ==
  /\ pc[t] = "detail_store"
  /\ _detail_cache' = [_detail_cache EXCEPT ![req[t].name] =
                         Some([cachedAt |-> now, data |-> loc[t].data[1]])]
  /\ resp' = [resp EXCEPT ![t] = [NoResp EXCEPT !.status = 200, !.data = loc[t].data]]
  /\ pc' = [pc EXCEPT ![t] = "done"]
  /\ UNCHANGED << now, _emote_list_cache, workers, wrote, probe, obs, req, ens, loc, hist >>

\* the response has been sent; the worker takes the next request
Finish(t) ==
  /\ pc[t] = "done"
  /\ pc' = [pc EXCEPT ![t] = "idle"]
  /\ req' = [req EXCEPT ![t] = NoReq]
  /\ ens' = [ens EXCEPT ![t] = NoEns]
  /\ loc' = [loc EXCEPT ![t] = NoLoc]
  /\ resp' = [resp EXCEPT ![t] = NoResp]
  /\ hist' = [hist EXCEPT ![t] = NoHist]
  /\ wrote' = wroteAfter(t)
  /\ UNCHANGED << now, _emote_list_cache, _detail_cache, workers, probe, obs >>

\* a direct call ensure_emote_list(max_age_seconds)
StartEnsure(t, ages) ==
  /\ t \in workers
  /\ pc[t] = "idle"
  /\ \E m \in ages : ens' = [ens EXCEPT ![t] = EnsFrame(m, _emote_list_cache)]
  /\ req' = [req EXCEPT ![t] = [NoReq EXCEPT !.op = "ensure"]]
  /\ hist' = [hist EXCEPT ![t] = StartHist]
  /\ loc' = [loc EXCEPT ![t] = NoLoc]
  /\ resp' = [resp EXCEPT ![t] = NoResp]
  /\ pc' = [pc EXCEPT ![t] = "ens_check"]
  /\ UNCHANGED << now, _emote_list_cache, _detail_cache, workers, wrote, probe, obs >>

\* the direct call returns or raises
EnsureDone(t) ==
  /\ pc[t] = "ens_ret" /\ req[t].op = "ensure"
  /\ resp' = [resp EXCEPT ![t] = [NoResp EXCEPT !.status =
                IF ens[t].result = "ok" THEN 200 ELSE statusOf(ens[t].result)]]
  /\ pc' = [pc EXCEPT ![t] = "done"]
  /\ UNCHANGED << now, _emote_list_cache, _detail_cache, workers, wrote, probe, obs, req, ens, loc, hist >>

\* a client keeps the search response it has just received
Observe(t) ==
  /\ pc[t] = "done" /\ req[t].op = "emotes" /\ resp[t].status = 200
  /\ obs' = Some([q |-> req[t].q, limit |-> req[t].limit, count |-> resp[t].count,
                  items |-> resp[t].items, posted |-> FALSE, stored |-> FALSE])
  /\ pc' = [pc EXCEPT ![t] = "idle"]
  /\ req' = [req EXCEPT ![t] = NoReq]
  /\ ens' = [ens EXCEPT ![t] = NoEns]
  /\ loc' = [loc EXCEPT ![t] = NoLoc]
  /\ resp' = [resp EXCEPT ![t] = NoResp]
  /\ hist' = [hist EXCEPT ![t] = NoHist]
  /\ wrote' = wroteAfter(t)
  /\ UNCHANGED << now, _emote_list_cache, _detail_cache, workers, probe >>

\* the steps of ensure_emote_list
EnsSteps(t, pages) ==
  \/ EnsCheck(t)
  \/ EnsAge(t)
  \/ EnsFetchFail(t)
  \/ EnsFetchRaise(t)
  \/ EnsFetchOk(t, pages)
  \/ EnsZero(t)
  \/ EnsStoreTiles(t)
  \/ EnsStoreTime(t)

\* the steps of api_emotes after the call of line 201
EmotesSteps(t) ==
  \/ EmotesRead(t)
  \/ EmotesResp(t)

\* the steps of api_refresh
RefreshSteps(t) ==
  \/ RefreshClearTime(t)
  \/ RefreshClearTiles(t)
  \/ RefreshCount(t)
  \/ RefreshResp(t)

\* the steps of api_emote_detail
DetailSteps(t, pages) ==
  \/ DetailCheck(t)
  \/ DetailRenderFail(t)
  \/ DetailRenderOk(t, pages)
  \/ DetailLookup(t)
  \/ DetailSwallow(t)
  \/ DetailStore(t)

\* the whole service, one request at a time
Next ==
  \/ Tick(Offsets)
  \/ \E t \in Threads : StartEmotes(t, QueriesOne, LimitsOne)
  \/ \E t \in Threads : StartRefresh(t)
  \/ \E t \in Threads : StartDetail(t, DetailNames)
  \/ \E t \in Threads : EnsSteps(t, RawPagesFew)
  \/ \E t \in Threads : EmotesSteps(t)
  \/ \E t \in Threads : RefreshSteps(t)
  \/ \E t \in Threads : HandlerRaises(t)
  \/ \E t \in Threads : DetailSteps(t, DetailPages)
  \/ \E t \in Threads : Finish(t)

Spec == Init /\ [][Next]_vars

\* the list cache under direct calls of ensure_emote_list and both list handlers
NextList ==
  \/ Tick(OffsetsList)
  \/ \E t \in Threads : StartEnsure(t, MaxAges)
  \/ \E t \in Threads : EnsureDone(t)
  \/ \E t \in Threads : StartEmotes(t, QueriesOne, LimitsOne)
  \/ \E t \in Threads : StartRefresh(t)
  \/ \E t \in Threads : EnsSteps(t, RawPages)
  \/ \E t \in Threads : EmotesSteps(t)
  \/ \E t \in Threads : RefreshSteps(t)
  \/ \E t \in Threads : HandlerRaises(t)
  \/ \E t \in Threads : Finish(t)

SpecList == Init /\ [][NextList]_vars

\* search over every query and limit
NextSearch ==
  \/ Tick(OffsetsSearch)
  \/ \E t \in Threads : StartEmotes(t, Queries, Limits)
  \/ \E t \in Threads : StartRefresh(t)
  \/ \E t \in Threads : EnsSteps(t, RawPages)
  \/ \E t \in Threads : EmotesSteps(t)
  \/ \E t \in Threads : RefreshSteps(t)
  \/ \E t \in Threads : HandlerRaises(t)
  \/ \E t \in Threads : Finish(t)

SpecSearch == Init /\ [][NextSearch]_vars

\* repeated searches, with a client that remembers a response
NextIdem ==
  \/ Tick(OffsetsSearch)
  \/ \E t \in Threads : StartEmotes(t, QueriesFew, LimitsFew)
  \/ \E t \in Threads : StartRefresh(t)
  \/ \E t \in Threads : StartDetail(t, {sGoldenGoat})
  \/ \E t \in Threads : EnsSteps(t, RawPagesFew)
  \/ \E t \in Threads : EmotesSteps(t)
  \/ \E t \in Threads : RefreshSteps(t)
  \/ \E t \in Threads : HandlerRaises(t)
  \/ \E t \in Threads : DetailSteps(t, {HtmlFull})
  \/ \E t \in Threads : Observe(t)
  \/ \E t \in Threads : Finish(t)

SpecIdem == Init /\ [][NextIdem]_vars

\* ------------------------------------------------------------------------
\* Properties of the list cache.
\* ------------------------------------------------------------------------
\* the threads that have just left ensure_emote_list (returned or raised)
AtEnsRet(t) == pc[t] = "ens_ret"

\* the freshness predicate as the specification words it
UsableCache(cache, n, maxAge) == Len(cache.tiles) > 0 /\ n - cache.updated_at < maxAge

\* C1: a call of ensure_emote_list(maxAge) made at clock value n leaves without
\* a render and with the cache as it found it if and only if the cache it found
\* had tiles and n - updatedAt < maxAge; otherwise exactly one render is
\* attempted, and a render that yields tiles replaces both tiles and updatedAt.
C1_Freshness ==
  \A t \in Threads : AtEnsRet(t) =>
    LET pre == ens[t].pre[1]
        usable == UsableCache(pre, ens[t].now, ens[t].max_age)
    IN  /\ (ens[t].rendered = 0 /\ _emote_list_cache = pre) <=> usable
        /\ ~usable => ens[t].rendered = 1
        /\ (ens[t].rendered = 1 /\ ens[t].result = "ok") =>
             /\ _emote_list_cache.tiles = ens[t].tiles
             /\ Len(ens[t].tiles) > 0
             /\ _emote_list_cache.updated_at = ens[t].now

\* a list populated at T with maxAge = 3600 is re-rendered at T + 3601 and both
\* fields are replaced
C1_Witness ==
  \E t \in Threads :
    /\ AtEnsRet(t) /\ ens[t].max_age = 3600 /\ ens[t].result = "ok"
    /\ Len(ens[t].pre[1].tiles) > 0
    /\ ens[t].now - ens[t].pre[1].updated_at = 3601
    /\ _emote_list_cache.tiles # ens[t].pre[1].tiles
    /\ _emote_list_cache.updated_at = ens[t].pre[1].updated_at + 3601

\* the same list is served without a render at T + 3599
C1_ServedAt3599 ==
  \E t \in Threads :
    /\ AtEnsRet(t) /\ ens[t].max_age = 3600 /\ ens[t].rendered = 0
    /\ ens[t].now - ens[t].pre[1].updated_at = 3599

\* C2: a POST /api/refresh never reaches its answer (success or error) without
\* a render attempt of the catalog, whatever the cache held when it arrived.
C2_ForcedRefresh ==
  \A t \in Threads :
    (req[t].op = "refresh" /\ pc[t] \in {"ens_ret", "refresh_resp", "done"}) =>
      hist[t].listRenders = 1

\* a refresh that arrived at a non-empty, fresh cache has rendered
C2_Witness ==
  \E t \in Threads :
    /\ req[t].op = "refresh" /\ pc[t] = "done"
    /\ UsableCache(hist[t].pre[1], now, DEFAULT_MAX_AGE)
    /\ hist[t].listRenders = 1

\* a request that has been answered and whose list refresh failed to render
ListRenderFailed(t) == pc[t] = "done" /\ ens[t].result = "500"

\* C3 as stated: whenever the render step of a list refresh fails, the request
\* (search, refresh or detail) ends in a 500 and leaves tiles and updatedAt as
\* they were before the request.
C3_AsStated ==
  \A t \in Threads :
    (ListRenderFailed(t) /\ req[t].op \in {"emotes", "refresh", "detail"}) =>
      /\ resp[t].status = 500
      /\ _emote_list_cache = hist[t].pre[1]

\* C3 amended: a failed render makes ensure_emote_list raise a 500 without
\* changing the cache it found.  GET /api/emotes then ends in a 500 with the
\* cache as before the request; POST /api/refresh ends in a 500 with the cache
\* cleared (empty list, updatedAt 0), because it clears before it refreshes;
\* GET /api/emotes/{name} swallows the error, answers 200 with imageUrl null and
\* leaves the list cache as before the request.
C3_RenderFailure ==
  \A t \in Threads :
    /\ (AtEnsRet(t) /\ ens[t].result = "500") =>
         /\ _emote_list_cache = ens[t].pre[1]
         /\ ens[t].rendered = 1
    /\ (ListRenderFailed(t) /\ req[t].op = "emotes") =>
         /\ resp[t].status = 500
         /\ _emote_list_cache = hist[t].pre[1]
    /\ (ListRenderFailed(t) /\ req[t].op = "refresh") =>
         /\ resp[t].status = 500
         /\ _emote_list_cache = [updated_at |-> 0, tiles |-> << >>]
    /\ (ListRenderFailed(t) /\ req[t].op = "detail") =>
         /\ resp[t].status = 200
         /\ resp[t].data[1].imageUrl = None
         /\ _emote_list_cache = hist[t].pre[1]

\* a search whose render failed over a stale, non-empty list: the list is kept
C3_Witness ==
  \E t \in Threads :
    /\ ListRenderFailed(t) /\ req[t].op = "emotes" /\ resp[t].status = 500
    /\ Len(hist[t].pre[1].tiles) > 0
    /\ _emote_list_cache = hist[t].pre[1]

LowerLetters == {"a", "b", "c", "d", "e", "f", "g", "h", "i", "j", "k", "l", "m",
                 "n", "o", "p", "q", "r", "s", "t", "u", "v", "w", "x", "y", "z"}

Digits == {"0", "1", "2", "3", "4", "5", "6", "7", "8", "9"}

UpperToLower ==
  [c \in {"A", "B", "C", "D", "E", "F", "G", "H", "I", "J", "K", "L", "M",
          "N", "O", "P", "Q", "R", "S", "T", "U", "V", "W", "X", "Y", "Z"} |->
     CASE c = "A" -> "a" [] c = "B" -> "b" [] c = "C" -> "c" [] c = "D" -> "d"
       [] c = "E" -> "e" [] c = "F" -> "f" [] c = "G" -> "g" [] c = "H" -> "h"
       [] c = "I" -> "i" [] c = "J" -> "j" [] c = "K" -> "k" [] c = "L" -> "l"
       [] c = "M" -> "m" [] c = "N" -> "n" [] c = "O" -> "o" [] c = "P" -> "p"
       [] c = "Q" -> "q" [] c = "R" -> "r" [] c = "S" -> "s" [] c = "T" -> "t"
       [] c = "U" -> "u" [] c = "V" -> "v" [] c = "W" -> "w" [] c = "X" -> "x"
       [] c = "Y" -> "y" [] c = "Z" -> "z"]

\* normalization as specified: lowercase, then drop what is outside [a-z0-9]
RECURSIVE Normalized(_)
Normalized(s) ==
  IF s = << >> THEN << >>
  ELSE LET c == IF s[1] \in DOMAIN UpperToLower THEN UpperToLower[s[1]] ELSE s[1]
       IN  IF c \in LowerLetters \cup Digits
           THEN << c >> \o Normalized(Tail(s))
           ELSE Normalized(Tail(s))

\* the whitespace-separated terms of q: its maximal runs of non-blank characters
TermsOf(q) ==
  LET blank(i) == q[i] \in {" ", "\n"}
  IN  {SubSeq(q, i, j) : <<i, j>> \in
         {ij \in (1..Len(q)) \X (1..Len(q)) :
            /\ ij[1] <= ij[2]
            /\ \A k \in ij[1]..ij[2] : ~blank(k)
            /\ (ij[1] = 1 \/ blank(ij[1] - 1))
            /\ (ij[2] = Len(q) \/ blank(ij[2] + 1))}}

\* a occurs in b as a contiguous block
OccursIn(a, b) ==
  \E off \in 0..Len(b) : /\ off + Len(a) <= Len(b)
                        /\ \A k \in 1..Len(a) : b[off + k] = a[k]

\* the tile matches q: every normalized term occurs in the normalized name
Matches(tile, q) ==
  \A term \in TermsOf(q) : OccursIn(Normalized(term), Normalized(tile.name))

\* the matching tiles of a list, in the order of the list
MatchingTiles(tiles, q) ==
  LET m(tile) == Matches(tile, q) IN SelectSeq(tiles, m)

Range(f) == {f[x] : x \in DOMAIN f}

\* a search that has computed its match set (the list `tiles` of line 206)
Searched(t) == pc[t] = "emotes_resp"

GoldenTiles == << Tile(sGoldenFrog, U2), Tile(sGoldenGoat, U1) >>

\* C5: a cached tile is in the match set of a search if and only if every
\* whitespace-separated term of q, normalized, occurs in the tile's normalized
\* name; the empty query matches every tile; the order of the terms is
\* irrelevant.
C5_SearchMatching ==
  \A t \in Threads : Searched(t) =>
    /\ \A k \in 1..Len(_emote_list_cache.tiles) :
         (_emote_list_cache.tiles[k] \in Range(loc[t].tiles))
           <=> Matches(_emote_list_cache.tiles[k], req[t].q)
    /\ Range(loc[t].tiles) \subseteq Range(_emote_list_cache.tiles)
    /\ req[t].q = qEmpty => loc[t].tiles = _emote_list_cache.tiles

\* "golden goat" over Golden Frog and Golden Goat matches only Golden Goat
C5_Witness ==
  \E t \in Threads :
    /\ Searched(t) /\ req[t].q = qGoldenGoatLower
    /\ _emote_list_cache.tiles = GoldenTiles
    /\ loc[t].tiles = << Tile(sGoldenGoat, U1) >>

\* "golden" matches both
C5_GoldenMatchesBoth ==
  \E t \in Threads :
    /\ Searched(t) /\ req[t].q = qGolden
    /\ _emote_list_cache.tiles = GoldenTiles
    /\ loc[t].tiles = GoldenTiles

\* C7: items is the first min(limit, matches) matching tiles in cached order
\* and count is the number of matching tiles before truncation.
C7_ResultShape ==
  \A t \in Threads :
    (pc[t] = "done" /\ req[t].op = "emotes" /\ resp[t].status = 200) =>
      LET matching == MatchingTiles(_emote_list_cache.tiles, req[t].q)
          n == IF req[t].limit < Len(matching) THEN req[t].limit ELSE Len(matching)
      IN  /\ resp[t].items = [k \in 1..n |-> matching[k]]
          /\ resp[t].count = Len(matching)
          /\ resp[t].count >= Len(resp[t].items)

\* limit 1 over two matches: one item, count 2
C7_Witness ==
  \E t \in Threads :
    /\ pc[t] = "done" /\ req[t].op = "emotes" /\ resp[t].status = 200
    /\ req[t].limit = 1 /\ resp[t].count = 2 /\ Len(resp[t].items) = 1

\* the three spellings of C6
GoatSpellings == {qGoldenGoat, qGoldengoat, qGOLDENGOAT}

\* the cached list holds a tile named "Golden Goat"
HasGoldenGoat == \E k \in 1..Len(_emote_list_cache.tiles) :
                   _emote_list_cache.tiles[k].name = sGoldenGoat

\* C6 as stated: over any cached list that holds "Golden Goat", the search that
\* was made with one of the three spellings found what the other two find.
C6_AsStated ==
  \A t \in Threads :
    (Searched(t) /\ req[t].q \in GoatSpellings /\ HasGoldenGoat) =>
      \A other \in GoatSpellings :
        loc[t].tiles = searchTiles(_emote_list_cache.tiles, other)

\* C6 amended: over any cached list that holds "Golden Goat", each of the three
\* spellings matches that tile; "goldengoat" and "GOLDEN-GOAT" have the same
\* match set, which is contained in the match set of "Golden Goat"; the latter
\* also holds every tile whose normalized name contains "golden" and "goat"
\* apart (such as "Goat Golden"), so all three agree exactly when the list has
\* no such tile.
C6_NormalizationInvariance ==
  \A t \in Threads :
    (Searched(t) /\ req[t].q \in GoatSpellings /\ HasGoldenGoat) =>
      LET mine == Range(loc[t].tiles)
          joined == {x \in Range(_emote_list_cache.tiles) :
                       OccursIn(qGoldengoat, Normalized(x.name))}
          apart == {x \in Range(_emote_list_cache.tiles) :
                      /\ OccursIn(qGolden, Normalized(x.name))
                      /\ OccursIn(qGoat, Normalized(x.name))
                      /\ ~OccursIn(qGoldengoat, Normalized(x.name))}
      IN  /\ \E x \in mine : x.name = sGoldenGoat
          /\ req[t].q \in {qGoldengoat, qGOLDENGOAT} => mine = joined
          /\ req[t].q = qGoldenGoat => mine = joined \cup apart

\* "GOLDEN-GOAT" over a list that also holds "Goat Golden" finds "Golden Goat" only
C6_Witness ==
  \E t \in Threads :
    /\ Searched(t) /\ req[t].q = qGOLDENGOAT
    /\ \E k \in 1..Len(_emote_list_cache.tiles) : _emote_list_cache.tiles[k].name = sGoatGolden
    /\ loc[t].tiles = << Tile(sGoldenGoat, U3) >>

\* ------------------------------------------------------------------------
\* Repeated searches.
\* ------------------------------------------------------------------------
\* a search has been answered after the same search was answered and remembered
Repeated(t) ==
  /\ pc[t] = "done" /\ req[t].op = "emotes" /\ resp[t].status = 200
  /\ obs # None
  /\ obs[1].q = req[t].q /\ obs[1].limit = req[t].limit

\* C8 as stated: with no POST /api/refresh between them, two searches with the
\* same q and limit return the same items and count.
C8_AsStated ==
  \A t \in Threads :
    (Repeated(t) /\ ~obs[1].posted) =>
      /\ resp[t].items = obs[1].items
      /\ resp[t].count = obs[1].count

\* C8 amended: two searches with the same q and limit return the same items and
\* count when, after the first answer, there was no POST /api/refresh and no
\* list refresh stored a new list (none by the second search itself on a stale
\* cache and none by the enrichment of a detail request).
C8_Idempotence ==
  \A t \in Threads :
    (Repeated(t) /\ ~obs[1].posted /\ ~obs[1].stored) =>
      /\ resp[t].items = obs[1].items
      /\ resp[t].count = obs[1].count

\* the repeated search was answered from the untouched list, truncated by limit
C8_Witness ==
  \E t \in Threads :
    /\ Repeated(t) /\ ~obs[1].posted /\ ~obs[1].stored
    /\ req[t].limit = 1 /\ resp[t].count = 2

\* ------------------------------------------------------------------------
\* Properties of the detail cache.
\* ------------------------------------------------------------------------
\* the detail request of t has been answered
DetailAnswered(t) == pc[t] = "done" /\ req[t].op = "detail"

\* the entry the request found under its name
FoundEntry(t) == hist[t].dpre[1][req[t].name]

\* the request found an entry younger than 24 hours when it looked
FoundYoung(t) ==
  /\ FoundEntry(t) # None
  /\ hist[t].checkedAt - FoundEntry(t)[1].cachedAt < 24 * 3600

\* what a detail request has done when it is answered
C9_Answered ==
  \A t \in Threads : DetailAnswered(t) =>
    IF FoundYoung(t)
    THEN /\ resp[t].status = 200
         /\ resp[t].data = Some(FoundEntry(t)[1].data)
         /\ hist[t].detailRenders = 0 /\ hist[t].listRenders = 0
         /\ _detail_cache = hist[t].dpre[1]
         /\ _emote_list_cache = hist[t].pre[1]
    ELSE /\ hist[t].detailRenders = 1
         /\ resp[t].status = 200 =>
              LET e == _detail_cache[req[t].name]
              IN  /\ e # None
                  /\ e[1].data = resp[t].data[1]
                  /\ hist[t].checkedAt <= e[1].cachedAt /\ e[1].cachedAt <= now
                  /\ FoundEntry(t) # None => e[1].cachedAt > FoundEntry(t)[1].cachedAt

\* an entry is never removed, and changes only in the store step of a request
\* for its name that found no entry or one of 24 hours or more
C9_Superseded ==
  \A n \in DetailNames :
    _detail_cache[n] # None =>
      /\ _detail_cache'[n] # None
      /\ _detail_cache'[n] # _detail_cache[n] =>
           \E t \in Threads : /\ pc[t] = "detail_store" /\ req[t].name = n
                              /\ ~FoundYoung(t)
                              /\ pc'[t] = "done"

\* C9: a detail request that finds an entry younger than 24 hours returns the
\* stored record without any render and without changing either cache; any
\* other detail request renders the detail page and, on success, stores the new
\* record under the requested name with a new cachedAt.  This does not depend
\* on the list cache, and entries are never removed, only overwritten by such a
\* request for the same name.
C9_DetailMemo == []C9_Answered /\ [][C9_Superseded]_vars

\* an entry of 23h59m59s is served while the list cache is long stale
C9_Witness ==
  \E t \in Threads :
    /\ DetailAnswered(t) /\ FoundYoung(t)
    /\ hist[t].checkedAt - FoundEntry(t)[1].cachedAt = 86399
    /\ ~UsableCache(_emote_list_cache, now, DEFAULT_MAX_AGE)
    /\ resp[t].data = Some(FoundEntry(t)[1].data)

\* an entry of exactly 24 hours is rendered again and overwritten
C9_SupersededAt24h ==
  \E t \in Threads :
    /\ DetailAnswered(t) /\ resp[t].status = 200
    /\ FoundEntry(t) # None
    /\ hist[t].checkedAt - FoundEntry(t)[1].cachedAt = 86400
    /\ _detail_cache[req[t].name] # FoundEntry(t)

\* the image the list cache holds for a name: that of the tile with exactly
\* that name, None without such a tile
ImageOf(tiles, name) ==
  IF \E x \in Range(tiles) : x.name = name
  THEN (CHOOSE x \in Range(tiles) : x.name = name).imageUrl
  ELSE None

\* C10: once the detail render has succeeded the request always succeeds; when
\* the enrichment fails (500, 502 or any other error) the record is returned
\* and stored with imageUrl null; when it succeeds imageUrl is that of the
\* list-cache tile with exactly the requested name, or null without such tile.
C10_Enrichment ==
  \A t \in Threads :
    (DetailAnswered(t) /\ ens[t].result # "none") =>
      /\ resp[t].status = 200
      /\ _detail_cache[req[t].name] # None
      /\ _detail_cache[req[t].name][1].data = resp[t].data[1]
      /\ ens[t].result \in {"500", "502", "exception"} => resp[t].data[1].imageUrl = None
      /\ ens[t].result = "ok" =>
           resp[t].data[1].imageUrl = ImageOf(_emote_list_cache.tiles, req[t].name)

\* a zero-tile list refresh inside a detail request: answered with imageUrl null
C10_Witness ==
  \E t \in Threads :
    /\ DetailAnswered(t) /\ ens[t].result = "502"
    /\ resp[t].status = 200 /\ resp[t].data[1].imageUrl = None
    /\ _detail_cache[req[t].name][1].data = resp[t].data[1]

\* the enrichment found the image of the requested tile
C10_ImageAttached ==
  \E t \in Threads :
    /\ DetailAnswered(t) /\ ens[t].result = "ok"
    /\ resp[t].data[1].imageUrl = U1

\* ------------------------------------------------------------------------
\* The list cache after a zero-tile result.
\* ------------------------------------------------------------------------
\* ensure_emote_list has just raised the zero-tile error
RaisedZeroTiles(t) == AtEnsRet(t) /\ ens[t].result = "502"

\* C11 as stated: whenever ensure_emote_list has just raised the zero-tile
\* (502) error the cached list is empty, on every path into it.
C11_AsStated ==
  \A t \in Threads : RaisedZeroTiles(t) => _emote_list_cache.tiles = << >>

\* C11 amended: when ensure_emote_list has just raised the zero-tile (502)
\* error, updatedAt is 0 and tiles is the list the call found: empty under
\* POST /api/refresh (which cleared it) and on an empty cache, the previously
\* cached non-empty list when a search or a detail enrichment found it stale.
C11_ZeroTilesKeepList ==
  \A t \in Threads : RaisedZeroTiles(t) =>
    /\ _emote_list_cache.updated_at = 0
    /\ _emote_list_cache.tiles = ens[t].pre[1].tiles
    /\ req[t].op = "refresh" => _emote_list_cache.tiles = << >>
    /\ req[t].op \in {"emotes", "detail"} =>
         _emote_list_cache.tiles = hist[t].pre[1].tiles

\* a search over a stale list got zero tiles: the stale list is still cached
C11_Witness ==
  \E t \in Threads :
    /\ RaisedZeroTiles(t) /\ req[t].op = "emotes"
    /\ Len(_emote_list_cache.tiles) > 0
    /\ _emote_list_cache.updated_at = 0

\* ------------------------------------------------------------------------
\* Concurrent requests: two worker threads, no lock around either cache.
\* ------------------------------------------------------------------------
QueriesAll == {qEmpty}

OffsetsConc == {0, 21600}

RawPagesConc == {RawGolden, RawBlank}

\* two requests may be in flight at the same time
InitConc == InitCommon /\ workers = {1, 2}

NextConc ==
  \/ Tick(OffsetsConc)
  \/ \E t \in Threads : StartEmotes(t, QueriesAll, LimitsOne)
  \/ \E t \in Threads : StartRefresh(t)
  \/ \E t \in Threads : EnsSteps(t, RawPagesConc)
  \/ \E t \in Threads : EmotesSteps(t)
  \/ \E t \in Threads : RefreshSteps(t)
  \/ \E t \in Threads : HandlerRaises(t)
  \/ \E t \in Threads : Finish(t)

SpecConc == InitConc /\ [][NextConc]_vars

\* t has written one field of the list cache and not yet the other
MidWrite(t) == pc[t] \in {"ens_store_time", "refresh_clear_tiles"}

\* the next step of t reads the list cache
AboutToRead(t) ==
  \/ pc[t] \in {"ens_check", "ens_age", "emotes_resp", "refresh_resp"}
  \/ pc[t] = "ens_ret" /\ ens[t].result = "ok"

\* the stored pair comes from one request: whenever no request is half-way
\* through its two writes, a stored updatedAt and the stored tiles were written
\* by the same request
C12_SamePair ==
  ((\A t \in Threads : ~MidWrite(t)) /\ _emote_list_cache.updated_at # 0) =>
    wrote.tiles = wrote.updated_at

\* no other request is about to read the cache while a refresh has stored its
\* tiles but not yet its updatedAt
C12_NoTornRead ==
  \A t, u \in Threads :
    (t # u /\ pc[t] = "ens_store_time") => ~AboutToRead(u)

\* C12: tiles and updatedAt are replaced as one indivisible step: the stored
\* pair always comes from one refresh, and no concurrent request can observe
\* the new tiles together with the old updatedAt.
C12_AtomicReplace == C12_SamePair /\ C12_NoTornRead

\* C13: at most one list-refresh render is in flight at any time, and at most
\* one detail render per name.
C13_SingleFlight ==
  /\ Cardinality({t \in Threads : pc[t] = "ens_fetch"}) <= 1
  /\ \A n \in DetailNames :
       Cardinality({t \in Threads : pc[t] = "detail_render" /\ req[t].name = n}) <= 1

\* a <= b in the order of lowercased names
RECURSIVE LoweredLeq(_, _)
LoweredLeq(a, b) ==
  LET low(c) == IF c \in DOMAIN UpperToLower THEN UpperToLower[c] ELSE c
  IN  IF a = << >> THEN TRUE
      ELSE IF b = << >> THEN FALSE
      ELSE IF low(a[1]) = low(b[1]) THEN LoweredLeq(Tail(a), Tail(b))
      ELSE Code(low(a[1])) < Code(low(b[1]))

\* ascending by lowercased name
SortedByLoweredName(tiles) ==
  \A k \in 1..(Len(tiles) - 1) : LoweredLeq(tiles[k].name, tiles[k + 1].name)

\* C14: the list cache is either empty with updatedAt 0, or non-empty and
\* sorted ascending by lowercased name.
C14_ListCacheInvariant ==
  \/ _emote_list_cache.tiles = << >> /\ _emote_list_cache.updated_at = 0
  \/ Len(_emote_list_cache.tiles) > 0 /\ SortedByLoweredName(_emote_list_cache.tiles)

\* the lists a successful refresh can store
StorableLists ==
  {fetch_emote_tiles_rendered(raw) : raw \in RawPages} \ {<< >>}

C19_RefreshResponse ==
  \A t \in Threads :
    (pc[t] = "done" /\ req[t].op = "refresh" /\ resp[t].status = 200) =>
      /\ resp[t].count >= 1
      /\ resp[t].updatedAt > 0
      /\ resp[t].count = Len(ens[t].tiles)
      /\ resp[t].updatedAt = ens[t].now

\* ------------------------------------------------------------------------
\* The tile extractor on its own: lines 85-96 applied to every list of raw
\* pairs the page evaluation can return, up to MaxRawLen pairs.
\* ------------------------------------------------------------------------
MaxRawLen == 3

szeta == << "z", "e", "t", "a" >>

sEmpty == << >>

\* an empty name is dropped by the filter of line 80 and again by line 90
RawNames == {sZeta, szeta, sAlpha, sZetaPadded, sBlank, sEmpty}

RawUrls == {U1, U2, U3}

RawPairs == {Tile(n, u) : n \in RawNames, u \in RawUrls}

RawLists == UNION {[1..k -> RawPairs] : k \in 0..MaxRawLen}

InitTiles ==
  /\ InitBase
  /\ workers = {}
  /\ probe \in {[raw |-> r, out |-> None] : r \in RawLists}

\* lines 85-96 on the drawn list
ExtractTiles ==
  /\ probe.out = None
  /\ probe' = [probe EXCEPT !.out = Some(fetch_emote_tiles_rendered(probe.raw))]
  /\ UNCHANGED << now, _emote_list_cache, _detail_cache, workers, wrote, obs, pc, req, ens, loc, resp, hist >>

NextTiles == ExtractTiles

SpecTiles == InitTiles /\ [][NextTiles]_vars

\* the extractor has run on the drawn list
Extracted == probe.out # None

\* first position of a name in a list of names
FirstAt(names, n) ==
  CHOOSE i \in 1..Len(names) :
    names[i] = n /\ \A j \in 1..(i - 1) : names[j] # n

\* names of the stored tiles are pairwise different
NoSharedName(out) ==
  \A i, j \in 1..Len(out) : i # j => out[i].name # out[j].name

\* out holds exactly the non-empty names of `names`, each once, with the
\* imageUrl of the first raw pair carrying it, ascending by lowercased name
DedupSorted(raw, names, out) ==
  /\ {out[i].name : i \in 1..Len(out)} = {names[i] : i \in 1..Len(names)} \ {<< >>}
  /\ NoSharedName(out)
  /\ \A i \in 1..Len(out) : out[i].imageUrl = raw[FirstAt(names, out[i].name)].imageUrl
  /\ SortedByLoweredName(out)

\* C15 as stated: the stored list holds each distinct non-empty raw name once
\* (compared case-sensitively), with the imageUrl of its first occurrence,
\* without the pairs whose name is empty, ascending by lowercased name.
C15_AsStated ==
  Extracted =>
    DedupSorted(probe.raw, [i \in 1..Len(probe.raw) |-> probe.raw[i].name], probe.out[1])

\* a name without its leading and trailing white space
Trimmed(s) ==
  LET inked == {i \in 1..Len(s) : s[i] \notin {" ", "\n"}}
  IN  IF inked = {} THEN << >>
      ELSE LET a == CHOOSE i \in inked : \A j \in inked : i <= j
               b == CHOOSE i \in inked : \A j \in inked : i >= j
           IN  SubSeq(s, a, b)

\* C15: the stored list holds each distinct non-empty TRIMMED raw name once
\* (compared case-sensitively after trimming), with the imageUrl of the first
\* raw pair whose trimmed name it is, without the pairs whose name is empty or
\* only white space, ascending by lowercased name.
C15_DedupSort ==
  Extracted =>
    DedupSorted(probe.raw, [i \in 1..Len(probe.raw) |-> Trimmed(probe.raw[i].name)], probe.out[1])

\* the example: Zeta u1, Alpha u2, Zeta u3 gives Alpha u2, Zeta u1
C15_Witness ==
  /\ Extracted
  /\ probe.raw = << Tile(sZeta, U1), Tile(sAlpha, U2), Tile(sZeta, U3) >>
  /\ probe.out[1] = << Tile(sAlpha, U2), Tile(sZeta, U1) >>

\* a padded name and its trimmed spelling are one tile
C15_PaddedIsSameName ==
  /\ Extracted
  /\ probe.raw = << Tile(sZetaPadded, U1), Tile(sZeta, U2) >>
  /\ probe.out[1] = << Tile(sZeta, U1) >>

\* ------------------------------------------------------------------------
\* The detail extractor on its own: parse_emote_details applied to every
\* page whose text has up to MaxLines lines.
\* ------------------------------------------------------------------------
MaxLines == 4

sOtherUrl == << "h", "t", "t", "p", "s", ":", "/", "/", "t", "w", "i", "t", "c", "h", ".", "t", "v", "/", "o", "t", "h", "e", "r" >>

sOther == << "O", "t", "h", "e", "r" >>

ssomechannel == << "s", "o", "m", "e", "c", "h", "a", "n", "n", "e", "l" >>

LinkText == [href |-> sTwitchUrl, txt |-> sSomeChannel]

LinkNoText == [href |-> sTwitchUrl, txt |-> << >>]

LinkOther == [href |-> sOtherUrl, txt |-> sOther]

\* the anchors the selector of line 128 matches, in document order
LinkLists ==
  {<< >>, << LinkText >>, << LinkNoText >>, << LinkNoText, LinkOther >>, << LinkText, LinkOther >>}

TextLines == {sGoldenGoat, sExpires, sSubGift, sPaddedTier, sBlank}

TextLists == UNION {[1..k -> TextLines] : k \in 0..MaxLines}

ParseNames == {sGoldenGoat, sExpires}

ParsePages ==
  {[links |-> l, text |-> x] : l \in LinkLists, x \in TextLists}
    \cup {HtmlFull, HtmlNotFound, HtmlNoText}

InitDetail ==
  /\ InitBase
  /\ workers = {}
  /\ probe \in {[name |-> n, html |-> h, out |-> None] : n \in ParseNames, h \in ParsePages}

\* lines 122-188 on the drawn name and page
ParseDetails ==
  /\ probe.out = None
  /\ probe' = [probe EXCEPT !.out = Some(parse_emote_details(probe.name, probe.html))]
  /\ UNCHANGED << now, _emote_list_cache, _detail_cache, workers, wrote, obs, pc, req, ens, loc, resp, hist >>

NextDetail == ParseDetails

SpecDetail == InitDetail /\ [][NextDetail]_vars

\* the extractor has run on the drawn page
Parsed == probe.out # None

\* the trimmed non-blank lines of a text, in order
FlatLines(text) ==
  LET inked(x) == Trimmed(x) # << >>
      kept == SelectSeq(text, inked)
  IN  [i \in 1..Len(kept) |-> Trimmed(kept[i])]

\* i is the first position >= from where lines holds x
IsFirst(lines, x, from, i) ==
  /\ i \in from..Len(lines)
  /\ lines[i] = x
  /\ \A j \in from..(i - 1) : lines[j] # x

\* the line at position k when that position exists
LineAt(lines, k) == IF k \in 1..Len(lines) THEN Some(lines[k]) ELSE None

\* the line following the first "Expires:" line at a position >= from
ExpiresFrom(lines, from) ==
  IF \E e \in from..Len(lines) : IsFirst(lines, sExpires, from, e)
  THEN LineAt(lines, 1 + CHOOSE e \in from..Len(lines) : IsFirst(lines, sExpires, from, e))
  ELSE None

DetailFields ==
  {"emoteName", "channel", "channelUrl", "source", "tier", "expires", "detailsUrl", "notFound"}

\* C16: parse_emote_details always returns a record; when the name is a line,
\* with i its first position, source is the line at i+2 and tier the line at
\* i+3 when they exist, and expires is the line after the first "Expires:" at
\* or after i; when the name is no line, source and tier are null and expires
\* is the line after the first "Expires:" anywhere.
C16_PositionalExtraction ==
  Parsed =>
    LET lines == FlatLines(probe.html.text)
        r == probe.out[1]
        found == \E i \in 1..Len(lines) : lines[i] = probe.name
    IN  /\ DOMAIN r = DetailFields
        /\ r.emoteName = probe.name
        /\ \A i \in 1..Len(lines) :
             IsFirst(lines, probe.name, 1, i) =>
               /\ r.source = LineAt(lines, i + 2)
               /\ r.tier = LineAt(lines, i + 3)
               /\ r.expires = ExpiresFrom(lines, i)
        /\ ~found =>
             /\ r.source = None
             /\ r.tier = None
             /\ r.expires = ExpiresFrom(lines, 1)

\* the example: Golden Goat, SomeChannel, Sub Gift, Tier 3, Expires:, date
C16_Witness ==
  /\ Parsed
  /\ probe.name = sGoldenGoat
  /\ FlatLines(probe.html.text) = << sGoldenGoat, sSomeChannel, sSubGift, sTier3, sExpires, sDate >>
  /\ probe.out[1].source = Some(sSubGift)
  /\ probe.out[1].tier = Some(sTier3)
  /\ probe.out[1].expires = Some(sDate)
  /\ probe.out[1].notFound = FALSE

\* an "Expires:" line before the name is not the one that counts
C16_ExpiresBeforeNameIgnored ==
  /\ Parsed
  /\ probe.name = sGoldenGoat
  /\ probe.html.text = << sExpires, sSubGift, sGoldenGoat >>
  /\ probe.out[1].expires = None

\* C17: the first matched link with visible text gives channelUrl and channel;
\* when links are matched but none has visible text, channelUrl is the first
\* matched link and channel the first path segment of its URL; channel and
\* channelUrl are null only when no link is matched.
C17_ChannelResolution ==
  Parsed =>
    LET links == probe.html.links
        r == probe.out[1]
        texted == {k \in 1..Len(links) : links[k].txt # << >>}
    IN  IF texted # {}
        THEN LET k == CHOOSE k \in texted : \A j \in texted : k <= j
             IN  r.channelUrl = Some(links[k].href) /\ r.channel = Some(links[k].txt)
        ELSE IF links # << >>
        THEN /\ r.channelUrl = Some(links[1].href)
             /\ r.channel = Some(firstSegment(stripSlash(urlPath(links[1].href))))
        ELSE r.channelUrl = None /\ r.channel = None

\* what the code returns for a page whose only matched link has no text
C17_NoTextGivesNull ==
  (Parsed /\ probe.html.links = << LinkNoText >>) =>
    probe.out[1].channel = None /\ probe.out[1].channelUrl = None

\* the first path segment of the link without text
C17_SegmentOfLink == firstSegment(stripSlash(urlPath(sTwitchUrl))) = ssomechannel

\* a detail request is in flight or answered
DetailRunning(t) == req[t].op = "detail" /\ pc[t] # "idle"

\* the detail render of the request failed: it rendered and has nothing parsed
DetailRenderFailed(t) ==
  DetailAnswered(t) /\ hist[t].detailRenders = 1 /\ loc[t].data = None

\* C20: a detail request leaves every detail-cache entry under another name as
\* it found it; when its detail render fails it ends in a 500 error with the
\* detail cache and the list cache as they were before the request.
C20_DetailFrame ==
  \A t \in Threads :
    /\ DetailRunning(t) =>
         \A n \in DetailNames \ {req[t].name} : _detail_cache[n] = hist[t].dpre[1][n]
    /\ DetailRenderFailed(t) =>
         /\ resp[t].status = 500
         /\ _detail_cache = hist[t].dpre[1]
         /\ _emote_list_cache = hist[t].pre[1]

\* a failed render over a stale entry and an entry under the other name
C20_Witness ==
  \E t \in Threads :
    /\ DetailRenderFailed(t)
    /\ resp[t].status = 500
    /\ FoundEntry(t) # None
    /\ _detail_cache[req[t].name] = FoundEntry(t)
    /\ \E n \in DetailNames \ {req[t].name} : _detail_cache[n] # None

====
